---- MODULE Spec2Model ----
(***************************************************************************)
(* Briefing-generation lifecycle of the Morning Drive client: the store's  *)
(* generation fields, the polling loop of HomeScreen, the decision dialog  *)
(* for recoverable errors and the user's generate / cancel intents.        *)
(*                                                                         *)
(* One action is one run of a handler on the JavaScript event loop, from   *)
(* its entry (or from the await it resumes at) to its next await or its    *)
(* end.  The component re-renders between two such runs, so a handler      *)
(* created by a render sees the React state of that render.                *)
(***************************************************************************)
EXTENDS Integers, Sequences, FiniteSets, Bags, TLC

\* ---------------------------------------------------------------- bounds
MaxJobs == 2          \* briefing ids the backend hands out: 1..MaxJobs
MaxDialogs == 2       \* decisions outstanding: dialogs open + resolves in flight
MaxPending == 2       \* generate requests in flight at once
MaxSessions == 3      \* pollGenerationStatus calls in one run
MaxBriefings == 21    \* the longest briefings list
MaxOptions == 3       \* the longest options list of a pending action

\* ------------------------------------------------------ program constants
AwaitingDelay == 2000
SuccessDelay == 3000
ErrorDelay == 5000
CacheLimit == 20      \* briefings kept in storage

NoJob == 0            \* generatingBriefingId: null
NoAction == 0         \* errorDialogShowing: null
NoTimer == 0          \* pollingTimeoutRef.current: null

Jobs == 1..MaxJobs
\* the backend names every pending action uniquely: here, by its briefing
ActionIds == Jobs

TerminalStatuses == {"completed", "completed_with_warnings", "failed", "cancelled"}
ProgressStatuses == {"pending", "gathering_content", "writing_script", "generating_audio"}
Statuses == ProgressStatuses \cup {"awaiting_confirmation"} \cup TerminalStatuses

Decisions == {"continue", "cancel", "retry"}
OptionSets == {{"cancel", "retry", "continue"}}
\* progress_percent and current_step of a response ("null": no current_step,
\* "": an empty one)
Payloads == {<<0, "null">>, <<100, "Writing script">>, <<40, "">>}

\* pending_action of a status response; NoPending when the field is absent
PendingActions == [action_id : ActionIds, options : OptionSets]
NoPending == [action_id |-> NoAction, options |-> {}]

\* errors (the message of each GenerationError) and error of a response
\* ("null": no error field; "" is the empty string)
ErrorLists == {<<>>, <<"Feed unavailable">>, <<"Feed unavailable", "TTS quota exceeded">>}
ErrorStrings == {"null", "", "Generation crashed"}
NoDetails == <<(<<>>), "null">>
Details ==
    {NoDetails} \cup {<<errs, "Generation crashed">> : errs \in ErrorLists}
               \cup {<<(<<>>), err>> : err \in ErrorStrings}
               \cup {<<errs, "null">> : errs \in ErrorLists}

\* GET /briefings/{id}/status responses the backend may send
Response(status, payload, pa) ==
    [status |-> status, progress_percent |-> payload[1],
     current_step |-> payload[2], pending_action |-> pa,
     errors |-> NoDetails[1], error |-> NoDetails[2]]

\* checkStatus reads errors and error in its 'failed' and
\* 'completed_with_warnings' branches only: the responses vary them there
ReadsDetails == {"failed", "completed_with_warnings"}

AllResponses ==
    {Response(status, payload, pa) :
        status \in Statuses, payload \in Payloads,
        pa \in PendingActions \cup {NoPending}}
    \cup
    {[Response(status, <<0, "null">>, NoPending) EXCEPT !.errors = d[1], !.error = d[2]] :
        status \in ReadsDetails, d \in Details}

\* pending_action is present only while the status is awaiting_confirmation
StatusResponses ==
    {r \in AllResponses :
        r.pending_action # NoPending => r.status = "awaiting_confirmation"}

\* the responses to getBriefingStatus(briefingId)
StatusResponsesFor(briefingId) ==
    {r \in StatusResponses :
        r.pending_action # NoPending => r.pending_action.action_id = briefingId}

VARIABLES
    store,               \* generation fields of useBriefingsStore
    shouldPollRef,       \* shouldPollRef.current
    pollingTimeoutRef,   \* session whose timer pollingTimeoutRef.current holds
    errorDialogShowing,  \* React state of the latest render
    sessions,            \* one checkStatus closure per pollGenerationStatus call
    nextBriefingId,      \* next id the backend will hand out
    genAlerts,           \* open 'Generate New Briefing' alerts
    isPending,           \* generateMutation.isPending
    superseded,          \* generate requests in flight that a later mutate() replaced
    cancelAlerts,        \* open 'Cancel Generation?' alerts: captured job ids
    cancelRequests,      \* POST /briefings/{id}/cancel requests in flight
    openDialogs,         \* bag of open 'Generation Issue' dialogs
    resolveRequests,     \* bag of POST /briefings/{id}/resolve in flight
    picked,              \* action ids the user has answered (observation)
    lastRun,             \* console line and notification of the last handler run
    mounted,             \* HomeScreen is mounted
    cancelledStart,      \* cancel was confirmed while the pending start request
                         \* was in flight and no job was active (observation)
    call,                \* one call of ApiClient.request, exercised on its own
    app,                 \* the whole state of useBriefingsStore, exercised on its own
    disk,                \* what persist has written to AsyncStorage
    storeRun,            \* the last operation on app (observation)
    issue                \* one 'Generation Issue' alert, exercised on its own

\* the state of HomeScreen and of the store's generation fields it drives
home == <<store, shouldPollRef, pollingTimeoutRef, errorDialogShowing, sessions,
          nextBriefingId, genAlerts, isPending, superseded, cancelAlerts,
          cancelRequests, openDialogs, resolveRequests, picked, lastRun,
          mounted, cancelledStart>>

\* the state of the parts exercised on their own
aside == <<call, app, disk, storeRun, issue>>

vars == <<home, aside>>

\* what a handler run wrote to the console and the notification it showed:
\* the alert's title with its message text (count: the number the message
\* quotes, plural: its 's'), and whether it invalidated the briefings query
Notice(alert, text, count, plural, invalidated) ==
    [log |-> "none", alert |-> alert, text |-> text, count |-> count,
     plural |-> plural, invalidated |-> invalidated]

Out(log, alert) ==
    [Notice(alert, "fixed", 0, FALSE, FALSE) EXCEPT !.log = log]

\* ------------------------------------------------------------------ store
InitialStore ==
    [isGenerating |-> FALSE, generatingBriefingId |-> NoJob,
     generationProgress |-> 0, generationStep |-> "null"]

\* variant: a startGeneration that leaves progress and step as they are
startGeneration_NoReset(briefingId) ==
    [isGenerating |-> TRUE, generatingBriefingId |-> briefingId]

startGeneration(briefingId) ==
    [isGenerating |-> TRUE, generatingBriefingId |-> briefingId,
     generationProgress |-> 0, generationStep |-> "Starting..."]

\* variant: a stopGeneration that leaves generatingBriefingId as it is
stopGeneration_KeepsId ==
    [isGenerating |-> FALSE, generatingBriefingId |-> store.generatingBriefingId,
     generationProgress |-> 0, generationStep |-> "null"]

\* variant: a stopGeneration that leaves progress and step on display
stopGeneration_KeepsProgress ==
    [isGenerating |-> FALSE, generatingBriefingId |-> NoJob,
     generationProgress |-> store.generationProgress,
     generationStep |-> store.generationStep]

stopGeneration ==
    [isGenerating |-> FALSE, generatingBriefingId |-> NoJob,
     generationProgress |-> 0, generationStep |-> "null"]

\* variant: a setGenerationProgress that never lowers the progress shown
setGenerationProgress_Clamped(st, progress, step) ==
    [st EXCEPT !.generationProgress = IF progress > @ THEN progress ELSE @,
               !.generationStep = step]

setGenerationProgress(st, progress, step) ==
    [st EXCEPT !.generationProgress = progress, !.generationStep = step]

\* JavaScript truthiness of an optional string
Truthy(x) == x # "null" /\ x # ""

\* x || null for an optional string x (line 242)
OrNull(x) == IF Truthy(x) THEN x ELSE "null"

\* ------------------------------------------------------- polling sessions
\* A session is one checkStatus closure: the briefingId it polls, the
\* errorDialogShowing value its showErrorDialog captured, and where it is:
\* "fetching" (awaiting getBriefingStatus), "timer" (setTimeout pending, with
\* its delay), "done" (returned from a terminal branch) or "stopped" (returned
\* otherwise, or its timer was cleared); nothing refers to it any more then.
Session(briefingId, marker, pc, delay) ==
    [job |-> briefingId, marker |-> marker, pc |-> pc, delay |-> delay]

Stopped(sn) == Session(sn.job, NoAction, "stopped", 0)
Done(sn) == Session(sn.job, NoAction, "done", 0)

\* variant: a clearTimeout that leaves the timer pending
clearTimeout_Kept(sess, ref) == sess

\* clearTimeout(pollingTimeoutRef.current): a no-op on a timer that has fired
clearTimeout(sess, ref) ==
    [i \in DOMAIN sess |->
        IF i = ref /\ sess[i].pc = "timer" THEN Stopped(sess[i]) ELSE sess[i]]

\* variant: a staleness test that reads shouldPollRef only
StillPolling_FlagOnly(sp, st, briefingId) == sp

\* the two staleness tests of checkStatus, read fresh from the ref and the store
StillPolling(sp, st, briefingId) ==
    sp /\ st.generatingBriefingId = briefingId

\* variant: a delay that also looks at progress_percent
NextDelay_ByProgress(r) ==
    IF r.progress_percent = 100
    THEN ErrorDelay
    ELSE IF r.status = "awaiting_confirmation" /\ r.pending_action # NoPending
         THEN AwaitingDelay
         ELSE SuccessDelay

\* the delay of the next setTimeout(checkStatus, ...) after a status response
NextDelay(r) ==
    IF r.status = "awaiting_confirmation" /\ r.pending_action # NoPending
    THEN AwaitingDelay
    ELSE SuccessDelay

\* showErrorDialog as seen from a closure that captured the marker value m:
\* TRUE when it presents the dialog for pending action pa
Presents(m, pa) == m # pa.action_id

Outstanding == BagCardinality(openDialogs) + BagCardinality(resolveRequests)

Dialog(briefingId, pa) ==
    [briefingId |-> briefingId, action_id |-> pa.action_id, options |-> pa.options]

\* variant: a cancelPolling that drops the timer handle without clearing it
cancelPolling_HandleOnly(sess) ==
    /\ shouldPollRef' = FALSE
    /\ sessions' = sess
    /\ pollingTimeoutRef' = NoTimer

\* cancelPolling(), applied to the sessions sess
cancelPolling(sess) ==
    /\ shouldPollRef' = FALSE
    /\ sessions' = clearTimeout(sess, pollingTimeoutRef)
    /\ pollingTimeoutRef' = NoTimer

\* variant: a pollGenerationStatus that starts without cancelPolling()
pollGenerationStatus_KeepsTimer(briefingId, st, m) ==
    /\ shouldPollRef' = TRUE
    /\ pollingTimeoutRef' = pollingTimeoutRef
    /\ sessions' = Append(sessions,
                          IF StillPolling(TRUE, st, briefingId)
                          THEN Session(briefingId, m, "fetching", 0)
                          ELSE Session(briefingId, NoAction, "stopped", 0))

\* pollGenerationStatus(briefingId): cancelPolling(), shouldPollRef := true and
\* the first checkStatus(), which sends getBriefingStatus when its two tests
\* pass; the new closure keeps the showErrorDialog of the render the called
\* pollGenerationStatus belongs to, which closed over the marker value m
pollGenerationStatus(briefingId, st, m) ==
    /\ shouldPollRef' = TRUE
    /\ pollingTimeoutRef' = NoTimer
    /\ sessions' = Append(clearTimeout(sessions, pollingTimeoutRef),
                          IF StillPolling(TRUE, st, briefingId)
                          THEN Session(briefingId, m, "fetching", 0)
                          ELSE Session(briefingId, NoAction, "stopped", 0))

\* ------------------------------------------------------- the whole store
\* briefings are named by their ids; NoBriefing: currentBriefing is null
NoBriefing == 0
NoSegment == 0
BriefingLists ==
    {<<>>, <<2, 1>>, [i \in 1..MaxBriefings |-> MaxBriefings + 1 - i]}

\* the initial state of useBriefingsStore (lines 229-235)
InitialState ==
    [briefings |-> <<>>, currentBriefing |-> NoBriefing, currentSegment |-> NoSegment,
     isGenerating |-> InitialStore.isGenerating,
     generatingBriefingId |-> InitialStore.generatingBriefingId,
     generationProgress |-> InitialStore.generationProgress,
     generationStep |-> InitialStore.generationStep]

\* zustand's set(patch): a shallow merge of the patch into the state
set(state, patch) ==
    [k \in DOMAIN state |-> IF k \in DOMAIN patch THEN patch[k] ELSE state[k]]

\* Array.prototype.slice(from, to) for 0 <= from <= to
slice(xs, from, to) ==
    SubSeq(xs, from + 1, IF to < Len(xs) THEN to ELSE Len(xs))

\* variant: a partialize that keeps the whole state
partialize_Whole(state) == state

\* what persist writes to storage (lines 273-276)
partialize(state) ==
    [briefings |-> slice(state.briefings, 0, CacheLimit),
     currentBriefing |-> state.currentBriefing]

\* the state after the app starts with storage d: persist merges the stored
\* slice over the initial state; with nothing stored the initial state stays
Rehydrate(d) ==
    IF d = {} THEN InitialState ELSE set(InitialState, CHOOSE x \in d : TRUE)

NoRun == [op |-> "none", wasGenerating |-> FALSE, wasJob |-> NoJob]

\* one store operation with patch: set(patch), then persist writes the slice
Apply(op, patch) ==
    /\ app' = set(app, patch)
    /\ disk' = {partialize(set(app, patch))}
    /\ storeRun' = [op |-> op, wasGenerating |-> app.isGenerating,
                    wasJob |-> app.generatingBriefingId]
    /\ UNCHANGED <<home, call, issue>>

CallSetBriefings(list) == Apply("setBriefings", [briefings |-> list])

CallSetCurrentBriefing(b) == Apply("setCurrentBriefing", [currentBriefing |-> b])

\* a segment is named by its index in the current briefing
CallSetCurrentSegment(seg) == Apply("setCurrentSegment", [currentSegment |-> seg])

CallStartGeneration(briefingId) ==
    Apply("startGeneration", startGeneration(briefingId))

CallStopGeneration == Apply("stopGeneration", stopGeneration)

CallSetGenerationProgress(payload) ==
    Apply("setGenerationProgress",
          [generationProgress |-> payload[1], generationStep |-> payload[2]])

\* the app is killed and started again: memory is lost, storage is kept
Restart ==
    /\ app' = Rehydrate(disk)
    /\ storeRun' = [op |-> "restart", wasGenerating |-> app.isGenerating,
                    wasJob |-> app.generatingBriefingId]
    /\ UNCHANGED <<home, call, disk, issue>>

\* --------------------------------------- ApiClient.request (lines 39-81)
HttpStatuses == {200, 401, 404, 500}
NetworkError == 0
Ok(status) == status \in 200..299

Endpoints ==
    {[path |-> "generate", id |-> NoJob]}
    \cup [path : {"status", "resolve", "cancel"}, id : Jobs]

\* a call of request(endpoint) with skipAuth = false: whether authService holds
\* an access token and a refresh token, where the call is, the HTTP requests
\* sent to the endpoint so far and the answers received to them
Call(endpoint, accessToken, refreshToken) ==
    [endpoint |-> endpoint, accessToken |-> accessToken,
     refreshToken |-> refreshToken, pc |-> "called", sent |-> 0, answers |-> <<>>]

Calls ==
    {Call(endpoint, accessToken, refreshToken) :
        endpoint \in Endpoints, accessToken \in BOOLEAN, refreshToken \in BOOLEAN}

NoCall == [Call([path |-> "none", id |-> NoJob], FALSE, FALSE) EXCEPT !.pc = "none"]

\* lines 77-80: the result of request for the response it ends with
Settle(status) == IF Ok(status) THEN "returned" ELSE "thrown"

\* lines 45-60: the headers are built and the first fetch is sent
request ==
    /\ call.pc = "called"
    /\ call' = [call EXCEPT !.pc = "fetch", !.sent = 1]
    /\ UNCHANGED <<home, app, disk, storeRun, issue>>

\* the first fetch is answered: a 401 to a call that carried a token goes to
\* tryRefreshToken, which gives up at once without a refresh token
FetchResolves(status) ==
    /\ call.pc = "fetch"
    /\ call' = [call EXCEPT
                  !.answers = Append(@, status),
                  !.pc = IF status = 401 /\ call.accessToken
                         THEN IF call.refreshToken THEN "refreshing" ELSE "thrown"
                         ELSE Settle(status)]
    /\ UNCHANGED <<home, app, disk, storeRun, issue>>

\* fetch rejects (no connection): request throws
FetchRejects ==
    /\ call.pc \in {"fetch", "refetch"}
    /\ call' = [call EXCEPT !.answers = Append(@, NetworkError), !.pc = "thrown"]
    /\ UNCHANGED <<home, app, disk, storeRun, issue>>

\* refreshTokens resolved: the tokens are stored and the request is sent again
RefreshResolves ==
    /\ call.pc = "refreshing"
    /\ call' = [call EXCEPT !.pc = "refetch", !.sent = @ + 1, !.accessToken = TRUE]
    /\ UNCHANGED <<home, app, disk, storeRun, issue>>

\* refreshTokens rejected: the tokens are cleared and the 401 is thrown
RefreshRejects ==
    /\ call.pc = "refreshing"
    /\ call' = [call EXCEPT !.pc = "thrown", !.accessToken = FALSE,
                            !.refreshToken = FALSE]
    /\ UNCHANGED <<home, app, disk, storeRun, issue>>

\* the second fetch is answered: no further refresh
RefetchResolves(status) ==
    /\ call.pc = "refetch"
    /\ call' = [call EXCEPT !.answers = Append(@, status), !.pc = Settle(status)]
    /\ UNCHANGED <<home, app, disk, storeRun, issue>>

\* ------------------------------- showErrorDialog's alert (lines 170-207)
\* options of a pending action as the backend sends them: a list of strings,
\* in any order, possibly with repeats and with entries the client does not know
OptionNames == Decisions \cup {"skip"}
OptionLists == UNION {[1..n -> OptionNames] : n \in 0..MaxOptions}

\* error.fallback_description ("null": absent; "" is the empty string)
FallbackDescriptions == {"null", "", "Cached headlines will be used"}

\* Array.prototype.includes
includes(xs, x) == \E i \in DOMAIN xs : xs[i] = x

\* variant: a 'continue' button that is always labelled 'Continue'
ContinueText_Plain(fallback_description) == "Continue"

\* the text of the 'continue' button (line 197)
ContinueText(fallback_description) ==
    IF Truthy(fallback_description) THEN "Continue with Fallback" ELSE "Continue"

\* a button: its text and the decision its onPress hands to
\* handleErrorDecision(briefingId, action_id, decision)
Button(text, decision) == [text |-> text, decision |-> decision]

\* the buttons array after lines 177-201
buttons(options, fallback_description) ==
    (IF includes(options, "cancel")
     THEN <<Button("Cancel Generation", "cancel")>> ELSE <<>>)
    \o (IF includes(options, "retry")
        THEN <<Button("Retry", "retry")>> ELSE <<>>)
    \o (IF includes(options, "continue")
        THEN <<Button(ContinueText(fallback_description), "continue")>> ELSE <<>>)

NoResolve == [briefingId |-> NoJob, action_id |-> NoAction, decision |-> "none"]

\* a pending action that checkStatus received for briefingId, the alert
\* showErrorDialog built for it, the button pressed and the call of
\* api.resolveBriefingError that followed
Issue(briefingId, options, fallback_description) ==
    [briefingId |-> briefingId, action_id |-> briefingId, options |-> options,
     fallback_description |-> fallback_description,
     pc |-> "received", buttons |-> <<>>, pressed |-> 0, relayed |-> NoResolve]

Issues ==
    {Issue(briefingId, options, fallback_description) :
        briefingId \in Jobs, options \in OptionLists,
        fallback_description \in FallbackDescriptions}

NoIssue == [Issue(NoJob, <<>>, "null") EXCEPT !.pc = "none"]

\* showErrorDialog(briefingId, pending_action) presents the alert
ShowErrorDialog ==
    /\ issue.pc = "received"
    /\ issue' = [issue EXCEPT
                   !.pc = "shown",
                   !.buttons = buttons(issue.options, issue.fallback_description)]
    /\ UNCHANGED <<home, call, app, disk, storeRun>>

\* button i is pressed: its onPress calls handleErrorDecision, which sends
\* api.resolveBriefingError(briefingId, actionId, decision)
onPress(i) ==
    /\ issue.pc = "shown"
    /\ i \in DOMAIN issue.buttons
    /\ issue' = [issue EXCEPT
                   !.pc = "pressed",
                   !.pressed = i,
                   !.relayed = [briefingId |-> issue.briefingId,
                                action_id |-> issue.action_id,
                                decision |-> issue.buttons[i].decision]]
    /\ UNCHANGED <<home, call, app, disk, storeRun>>

\* ------------------------------------------------------------------- Init
HomeInit ==
    /\ store = InitialStore
    /\ shouldPollRef = FALSE
    /\ pollingTimeoutRef = NoTimer
    /\ errorDialogShowing = NoAction
    /\ sessions = <<>>
    /\ nextBriefingId = 1
    /\ genAlerts = 0
    /\ isPending = FALSE
    /\ superseded = EmptyBag
    /\ cancelAlerts = {}
    /\ cancelRequests = {}
    /\ openDialogs = EmptyBag
    /\ resolveRequests = EmptyBag
    /\ picked = {}
    /\ lastRun = Out("none", "none")
    /\ mounted = TRUE
    /\ cancelledStart = FALSE

Init ==
    /\ HomeInit
    /\ call = NoCall
    /\ app = InitialState
    /\ disk = {}
    /\ storeRun = NoRun
    /\ issue = NoIssue

\* an open alert or dialog is modal: it covers the buttons of the screen
NoModal == genAlerts = 0 /\ cancelAlerts = {} /\ openDialogs = EmptyBag

\* ------------------------------------------------- generate (lines 298-307)
handleGenerateBriefing ==
    /\ mounted
    /\ ~(store.isGenerating \/ isPending)
    /\ NoModal
    /\ genAlerts' = genAlerts + 1
    /\ lastRun' = Out("none", "none")
    /\ UNCHANGED <<store, shouldPollRef, pollingTimeoutRef, errorDialogShowing,
                   sessions, nextBriefingId, isPending, superseded, cancelAlerts,
                   cancelRequests, openDialogs, resolveRequests, picked>>
    /\ UNCHANGED <<mounted, cancelledStart, aside>>

GenerateDismiss ==
    /\ genAlerts > 0
    /\ genAlerts' = genAlerts - 1
    /\ lastRun' = Out("none", "none")
    /\ UNCHANGED <<store, shouldPollRef, pollingTimeoutRef, errorDialogShowing,
                   sessions, nextBriefingId, isPending, superseded, cancelAlerts,
                   cancelRequests, openDialogs, resolveRequests, picked>>
    /\ UNCHANGED <<mounted, cancelledStart, aside>>

InFlight == (IF isPending THEN 1 ELSE 0) + BagCardinality(superseded)

\* 'Generate' pressed: generateMutation.mutate()
GenerateConfirm ==
    /\ genAlerts > 0
    /\ InFlight < MaxPending
    /\ genAlerts' = genAlerts - 1
    /\ superseded' = IF isPending
                     THEN superseded (+) SetToBag({errorDialogShowing})
                     ELSE superseded
    /\ isPending' = TRUE
    /\ lastRun' = Out("none", "none")
    /\ UNCHANGED <<store, shouldPollRef, pollingTimeoutRef, errorDialogShowing,
                   sessions, nextBriefingId, cancelAlerts, cancelRequests,
                   openDialogs, resolveRequests, picked>>
    /\ UNCHANGED <<mounted, cancelledStart, aside>>

\* The mutation that settles is the observer's current one (latest), whose
\* callbacks are those of the current render, or one that a later mutate()
\* replaced, whose callbacks are those of the render before that mutate():
\* m is the errorDialogShowing value that render's showErrorDialog closed over.
Settles(latest, m) ==
    IF latest
    THEN /\ isPending
         /\ m = errorDialogShowing
         /\ isPending' = FALSE
         /\ cancelledStart' = FALSE
         /\ UNCHANGED superseded
    ELSE /\ BagIn(m, superseded)
         /\ superseded' = superseded (-) SetToBag({m})
         /\ UNCHANGED <<isPending, cancelledStart>>

\* generateMutation.onSuccess: startGeneration(id); pollGenerationStatus(id),
\* which runs cancelPolling, sets shouldPollRef and enters checkStatus
GenerateSuccess(latest, m) ==
    /\ Settles(latest, m)
    /\ nextBriefingId <= MaxJobs
    /\ Len(sessions) < MaxSessions
    /\ nextBriefingId' = nextBriefingId + 1
    /\ store' = startGeneration(nextBriefingId)
    /\ pollGenerationStatus(nextBriefingId, startGeneration(nextBriefingId), m)
    /\ lastRun' = Out("none", "none")
    /\ UNCHANGED <<errorDialogShowing, genAlerts, cancelAlerts, cancelRequests,
                   openDialogs, resolveRequests, picked>>
    /\ UNCHANGED <<mounted, aside>>

\* variant: an onError that marks the generation as started
GenerateError_Starts(latest, m) ==
    /\ Settles(latest, m)
    /\ store' = startGeneration(nextBriefingId)
    /\ lastRun' = Out("none", "Failed to start generation")
    /\ UNCHANGED <<shouldPollRef, pollingTimeoutRef, errorDialogShowing,
                   sessions, nextBriefingId, genAlerts, cancelAlerts, cancelRequests,
                   openDialogs, resolveRequests, picked>>
    /\ UNCHANGED <<mounted, aside>>

\* generateMutation.onError
GenerateError(latest, m) ==
    /\ Settles(latest, m)
    /\ lastRun' = Out("none", "Failed to start generation")
    /\ UNCHANGED <<store, shouldPollRef, pollingTimeoutRef, errorDialogShowing,
                   sessions, nextBriefingId, genAlerts, cancelAlerts, cancelRequests,
                   openDialogs, resolveRequests, picked>>
    /\ UNCHANGED <<mounted, aside>>

\* ---------------------------------------------------- cancel (lines 309-336)
\* the close button of the progress card; the alert's onPress closes over the
\* generatingBriefingId of the render that built it
handleCancelGeneration ==
    /\ mounted
    /\ store.isGenerating \/ isPending
    /\ NoModal
    /\ cancelAlerts' = cancelAlerts \cup {store.generatingBriefingId}
    /\ lastRun' = Out("none", "none")
    /\ UNCHANGED <<store, shouldPollRef, pollingTimeoutRef, errorDialogShowing,
                   sessions, nextBriefingId, genAlerts, isPending, superseded,
                   cancelRequests, openDialogs, resolveRequests, picked>>
    /\ UNCHANGED <<mounted, cancelledStart, aside>>

CancelKeepGoing(briefingId) ==
    /\ briefingId \in cancelAlerts
    /\ cancelAlerts' = cancelAlerts \ {briefingId}
    /\ lastRun' = Out("none", "none")
    /\ UNCHANGED <<store, shouldPollRef, pollingTimeoutRef, errorDialogShowing,
                   sessions, nextBriefingId, genAlerts, isPending, superseded,
                   cancelRequests, openDialogs, resolveRequests, picked>>
    /\ UNCHANGED <<mounted, cancelledStart, aside>>

\* 'Cancel' pressed: cancelPolling(); stopGeneration(); then, when the captured
\* id is not null, api.cancelBriefing(id) is sent and awaited
CancelConfirm(briefingId) ==
    /\ briefingId \in cancelAlerts
    /\ cancelAlerts' = cancelAlerts \ {briefingId}
    /\ cancelPolling(sessions)
    /\ store' = stopGeneration
    /\ cancelRequests' = IF briefingId # NoJob
                         THEN cancelRequests \cup {briefingId}
                         ELSE cancelRequests
    /\ cancelledStart' = (isPending /\ store.generatingBriefingId = NoJob)
    /\ lastRun' = Out("none", "none")
    /\ UNCHANGED <<errorDialogShowing, nextBriefingId, genAlerts, isPending,
                   superseded, openDialogs, resolveRequests, picked>>
    /\ UNCHANGED <<mounted, aside>>

\* api.cancelBriefing resolved: nothing follows the await
CancelSucceeds(briefingId) ==
    /\ briefingId \in cancelRequests
    /\ cancelRequests' = cancelRequests \ {briefingId}
    /\ lastRun' = Out("none", "none")
    /\ UNCHANGED <<store, shouldPollRef, pollingTimeoutRef, errorDialogShowing,
                   sessions, nextBriefingId, genAlerts, isPending, superseded,
                   cancelAlerts, openDialogs, resolveRequests, picked>>
    /\ UNCHANGED <<mounted, cancelledStart, aside>>

\* api.cancelBriefing rejected: the catch block logs it
CancelFails(briefingId) ==
    /\ briefingId \in cancelRequests
    /\ cancelRequests' = cancelRequests \ {briefingId}
    /\ lastRun' = Out("Failed to cancel on server", "none")
    /\ UNCHANGED <<store, shouldPollRef, pollingTimeoutRef, errorDialogShowing,
                   sessions, nextBriefingId, genAlerts, isPending, superseded,
                   cancelAlerts, openDialogs, resolveRequests, picked>>
    /\ UNCHANGED <<mounted, cancelledStart, aside>>

\* ------------------------------------------- polling loop (lines 219-281)
\* a timer fires: checkStatus runs its two tests and, when both pass, sends
\* getBriefingStatus
TimerFires(s) ==
    /\ s \in DOMAIN sessions
    /\ sessions[s].pc = "timer"
    /\ sessions' = [sessions EXCEPT ![s] =
                      IF StillPolling(shouldPollRef, store, sessions[s].job)
                      THEN [@ EXCEPT !.pc = "fetching", !.delay = 0]
                      ELSE Stopped(@)]
    /\ lastRun' = IF StillPolling(shouldPollRef, store, sessions[s].job)
                  THEN Out("none", "none")
                  ELSE Out("Stopped", "none")
    /\ UNCHANGED <<store, shouldPollRef, pollingTimeoutRef, errorDialogShowing,
                   nextBriefingId, genAlerts, isPending, superseded, cancelAlerts,
                   cancelRequests, openDialogs, resolveRequests, picked>>
    /\ UNCHANGED <<mounted, cancelledStart, aside>>

Fetching(s) == s \in DOMAIN sessions /\ sessions[s].pc = "fetching"

\* getBriefingStatus resolved, but the session is stale: checkStatus returns
\* at line 239 without reading the response
StaleResponse(s) ==
    /\ s \in DOMAIN sessions
    /\ sessions[s].pc = "fetching"
    /\ ~StillPolling(shouldPollRef, store, sessions[s].job)
    /\ sessions' = [sessions EXCEPT ![s] = Stopped(@)]
    /\ lastRun' = Out("Ignoring stale response", "none")
    /\ UNCHANGED <<store, shouldPollRef, pollingTimeoutRef, errorDialogShowing,
                   nextBriefingId, genAlerts, isPending, superseded, cancelAlerts,
                   cancelRequests, openDialogs, resolveRequests, picked>>
    /\ UNCHANGED <<mounted, cancelledStart, aside>>

\* variant: an errorMsg that prefers the top-level error string
FailedMessage_TopFirst(r) ==
    IF Truthy(r.error)
    THEN r.error
    ELSE IF Len(r.errors) > 0 THEN r.errors[Len(r.errors)] ELSE "Generation failed"

\* errorMsg of the 'failed' branch (lines 261-263)
FailedMessage(r) ==
    IF Len(r.errors) > 0
    THEN r.errors[Len(r.errors)]
    ELSE IF Truthy(r.error) THEN r.error ELSE "Generation failed"

\* the title of the alert a terminal branch shows
TerminalAlert(r) ==
    CASE r.status = "completed" -> "Success"
      [] r.status = "completed_with_warnings" ->
            IF Len(r.errors) > 0 THEN "Briefing Ready" ELSE "Success"
      [] r.status = "failed" -> "Error"
      [] OTHER -> "none"

\* what a terminal branch shows and whether it invalidates the briefings query
TerminalNotice(r) ==
    CASE r.status = "failed" ->
            Notice("Error", FailedMessage(r), 0, FALSE, FALSE)
      [] r.status = "completed_with_warnings" /\ Len(r.errors) > 0 ->
            Notice("Briefing Ready", "fixed", Len(r.errors), Len(r.errors) > 1, TRUE)
      [] r.status \in {"completed", "completed_with_warnings"} ->
            Notice("Success", "fixed", 0, FALSE, TRUE)
      [] OTHER -> Notice("none", "fixed", 0, FALSE, FALSE)

\* an accepted response with a terminal status: setGenerationProgress, then
\* cancelPolling(); stopGeneration() and the alert of the branch
OnTerminal(s, r) ==
    /\ s \in DOMAIN sessions
    /\ sessions[s].pc = "fetching"
    /\ StillPolling(shouldPollRef, store, sessions[s].job)
    /\ r.status \in TerminalStatuses
    /\ cancelPolling([sessions EXCEPT ![s] = Done(@)])
    /\ store' = stopGeneration
    /\ lastRun' = TerminalNotice(r)
    /\ UNCHANGED <<errorDialogShowing, nextBriefingId, genAlerts, isPending,
                   superseded, cancelAlerts, cancelRequests, openDialogs,
                   resolveRequests, picked>>
    /\ UNCHANGED <<mounted, cancelledStart, aside>>

\* an accepted response with a non-terminal status: setGenerationProgress,
\* showErrorDialog when a decision is pending, and the next setTimeout
OnProgress(s, r) ==
    /\ s \in DOMAIN sessions
    /\ sessions[s].pc = "fetching"
    /\ StillPolling(shouldPollRef, store, sessions[s].job)
    /\ r.status \notin TerminalStatuses
    /\ LET pa == r.pending_action
           notify == r.status = "awaiting_confirmation" /\ pa # NoPending
           present == notify /\ Presents(sessions[s].marker, pa)
       IN /\ present => Outstanding < MaxDialogs
          /\ store' = setGenerationProgress(store, r.progress_percent,
                                            OrNull(r.current_step))
          /\ sessions' = [sessions EXCEPT ![s] =
                            [@ EXCEPT !.pc = "timer", !.delay = NextDelay(r)]]
          /\ pollingTimeoutRef' = s
          /\ errorDialogShowing' = IF present THEN pa.action_id ELSE errorDialogShowing
          /\ openDialogs' = IF present
                            THEN openDialogs (+) SetToBag({Dialog(sessions[s].job, pa)})
                            ELSE openDialogs
    /\ lastRun' = Out("none", "none")
    /\ UNCHANGED <<shouldPollRef, nextBriefingId, genAlerts, isPending, superseded,
                   cancelAlerts, cancelRequests, resolveRequests, picked>>
    /\ UNCHANGED <<mounted, cancelledStart, aside>>

TerminalResponse(s) ==
    /\ Fetching(s)
    /\ \E r \in StatusResponsesFor(sessions[s].job) : OnTerminal(s, r)

ProgressResponse(s) ==
    /\ Fetching(s)
    /\ \E r \in StatusResponsesFor(sessions[s].job) : OnProgress(s, r)

\* variant: a catch block that reschedules without its staleness test
StatusError_Always(s) ==
    /\ s \in DOMAIN sessions
    /\ sessions[s].pc = "fetching"
    /\ sessions' = [sessions EXCEPT ![s] = [@ EXCEPT !.pc = "timer", !.delay = ErrorDelay]]
    /\ pollingTimeoutRef' = s
    /\ lastRun' = Out("Error polling status", "none")
    /\ UNCHANGED <<store, shouldPollRef, errorDialogShowing, nextBriefingId,
                   genAlerts, isPending, superseded, cancelAlerts, cancelRequests,
                   openDialogs, resolveRequests, picked>>
    /\ UNCHANGED <<mounted, cancelledStart, aside>>

\* variant: a catch block that never reschedules
StatusError_GivesUp(s) ==
    /\ s \in DOMAIN sessions
    /\ sessions[s].pc = "fetching"
    /\ sessions' = [sessions EXCEPT ![s] = Stopped(@)]
    /\ lastRun' = Out("Error polling status", "none")
    /\ UNCHANGED <<store, shouldPollRef, pollingTimeoutRef, errorDialogShowing,
                   nextBriefingId, genAlerts, isPending, superseded, cancelAlerts,
                   cancelRequests, openDialogs, resolveRequests, picked>>
    /\ UNCHANGED <<mounted, cancelledStart, aside>>

\* variant: a catch block that also reports the failure and stops the store
StatusError_Reports(s) ==
    /\ s \in DOMAIN sessions
    /\ sessions[s].pc = "fetching"
    /\ LET go == StillPolling(shouldPollRef, store, sessions[s].job)
       IN /\ sessions' = [sessions EXCEPT ![s] =
                            IF go THEN [@ EXCEPT !.pc = "timer", !.delay = ErrorDelay]
                            ELSE Stopped(@)]
          /\ pollingTimeoutRef' = IF go THEN s ELSE pollingTimeoutRef
    /\ store' = stopGeneration
    /\ lastRun' = Out("Error polling status", "Error")
    /\ UNCHANGED <<shouldPollRef, errorDialogShowing, nextBriefingId,
                   genAlerts, isPending, superseded, cancelAlerts, cancelRequests,
                   openDialogs, resolveRequests, picked>>
    /\ UNCHANGED <<mounted, cancelledStart, aside>>

\* getBriefingStatus rejected: the catch block reschedules only while the
\* session is still the active one
StatusError(s) ==
    /\ s \in DOMAIN sessions
    /\ sessions[s].pc = "fetching"
    /\ LET go == StillPolling(shouldPollRef, store, sessions[s].job)
       IN /\ sessions' = [sessions EXCEPT ![s] =
                            IF go THEN [@ EXCEPT !.pc = "timer", !.delay = ErrorDelay]
                            ELSE Stopped(@)]
          /\ pollingTimeoutRef' = IF go THEN s ELSE pollingTimeoutRef
    /\ lastRun' = Out("Error polling status", "none")
    /\ UNCHANGED <<store, shouldPollRef, errorDialogShowing, nextBriefingId,
                   genAlerts, isPending, superseded, cancelAlerts, cancelRequests,
                   openDialogs, resolveRequests, picked>>
    /\ UNCHANGED <<mounted, cancelledStart, aside>>

\* ------------------------------------- decision dialog (lines 149-165)
Resolve(d, decision) ==
    [briefingId |-> d.briefingId, action_id |-> d.action_id, decision |-> decision]

\* a button of an open dialog is pressed: handleErrorDecision clears the
\* marker and sends resolveBriefingError
PickOption(d, decision) ==
    /\ BagIn(d, openDialogs)
    /\ decision \in d.options
    /\ openDialogs' = openDialogs (-) SetToBag({d})
    /\ errorDialogShowing' = NoAction
    /\ resolveRequests' = resolveRequests (+) SetToBag({Resolve(d, decision)})
    /\ picked' = picked \cup {d.action_id}
    /\ lastRun' = Out("none", "none")
    /\ UNCHANGED <<store, shouldPollRef, pollingTimeoutRef, sessions, nextBriefingId,
                   genAlerts, isPending, superseded, cancelAlerts, cancelRequests>>
    /\ UNCHANGED <<mounted, cancelledStart, aside>>

\* variant: a 'cancel' acknowledgement that stops polling and keeps the store
ResolveSuccess_PollingOnly(q) ==
    /\ BagIn(q, resolveRequests)
    /\ resolveRequests' = resolveRequests (-) SetToBag({q})
    /\ IF q.decision = "cancel"
       THEN /\ cancelPolling(sessions)
            /\ lastRun' = Out("none", "Cancelled")
            /\ UNCHANGED store
       ELSE /\ lastRun' = Out("none", "none")
            /\ UNCHANGED <<shouldPollRef, sessions, pollingTimeoutRef, store>>
    /\ UNCHANGED <<errorDialogShowing, nextBriefingId, genAlerts, isPending,
                   superseded, cancelAlerts, cancelRequests, openDialogs, picked>>
    /\ UNCHANGED <<mounted, cancelledStart, aside>>

\* resolveBriefingError resolved: a 'cancel' decision stops polling and the store
ResolveSuccess(q) ==
    /\ BagIn(q, resolveRequests)
    /\ resolveRequests' = resolveRequests (-) SetToBag({q})
    /\ IF q.decision = "cancel"
       THEN /\ cancelPolling(sessions)
            /\ store' = stopGeneration
            /\ lastRun' = Out("none", "Cancelled")
       ELSE /\ lastRun' = Out("none", "none")
            /\ UNCHANGED <<shouldPollRef, sessions, pollingTimeoutRef, store>>
    /\ UNCHANGED <<errorDialogShowing, nextBriefingId, genAlerts, isPending,
                   superseded, cancelAlerts, cancelRequests, openDialogs, picked>>
    /\ UNCHANGED <<mounted, cancelledStart, aside>>

\* variant: a catch block that gives the job up
ResolveError_Stops(q) ==
    /\ BagIn(q, resolveRequests)
    /\ resolveRequests' = resolveRequests (-) SetToBag({q})
    /\ cancelPolling(sessions)
    /\ store' = stopGeneration
    /\ lastRun' = Out("Error resolving", "Failed to send decision")
    /\ UNCHANGED <<errorDialogShowing, nextBriefingId, genAlerts, isPending,
                   superseded, cancelAlerts, cancelRequests, openDialogs, picked>>
    /\ UNCHANGED <<mounted, cancelledStart, aside>>

\* resolveBriefingError rejected: the catch block only reports it
ResolveError(q) ==
    /\ BagIn(q, resolveRequests)
    /\ resolveRequests' = resolveRequests (-) SetToBag({q})
    /\ lastRun' = Out("Error resolving", "Failed to send decision")
    /\ UNCHANGED <<store, shouldPollRef, pollingTimeoutRef, errorDialogShowing,
                   sessions, nextBriefingId, genAlerts, isPending, superseded,
                   cancelAlerts, cancelRequests, openDialogs, picked>>
    /\ UNCHANGED <<mounted, cancelledStart, aside>>

\* ------------------------------------------------------------ specification
Dialogs == [briefingId : Jobs, action_id : ActionIds, options : OptionSets]
Resolves == [briefingId : Jobs, action_id : ActionIds, decision : Decisions]
SessionIds == 1..MaxSessions
Markers == {NoAction} \cup ActionIds

Next ==
    \/ handleGenerateBriefing
    \/ GenerateDismiss
    \/ GenerateConfirm
    \/ \E latest \in BOOLEAN, m \in Markers : GenerateSuccess(latest, m)
    \/ \E latest \in BOOLEAN, m \in Markers : GenerateError(latest, m)
    \/ handleCancelGeneration
    \/ \E j \in Jobs \cup {NoJob} : CancelKeepGoing(j)
    \/ \E j \in Jobs \cup {NoJob} : CancelConfirm(j)
    \/ \E j \in Jobs : CancelSucceeds(j)
    \/ \E j \in Jobs : CancelFails(j)
    \/ \E s \in SessionIds : TimerFires(s)
    \/ \E s \in SessionIds : StaleResponse(s)
    \/ \E s \in SessionIds : TerminalResponse(s)
    \/ \E s \in SessionIds : ProgressResponse(s)
    \/ \E s \in SessionIds : StatusError(s)
    \/ \E d \in Dialogs, decision \in Decisions : PickOption(d, decision)
    \/ \E q \in Resolves : ResolveSuccess(q)
    \/ \E q \in Resolves : ResolveError(q)

Spec == Init /\ [][Next]_vars

\* the second tap of a double tap lands before the first alert covers the
\* button: a second 'Generate New Briefing' alert opens
DoubleTap ==
    /\ mounted
    /\ ~(store.isGenerating \/ isPending)
    /\ genAlerts = 1
    /\ cancelAlerts = {} /\ openDialogs = EmptyBag
    /\ nextBriefingId < MaxJobs   \* ids remain for both requests
    /\ genAlerts' = 2
    /\ lastRun' = Out("none", "none")
    /\ UNCHANGED <<store, shouldPollRef, pollingTimeoutRef, errorDialogShowing,
                   sessions, nextBriefingId, isPending, superseded, cancelAlerts,
                   cancelRequests, openDialogs, resolveRequests, picked>>
    /\ UNCHANGED <<mounted, cancelledStart, aside>>

NextDoubleTap == Next \/ DoubleTap

SpecDoubleTap == Init /\ [][NextDoubleTap]_vars

\* a pending setTimeout fires unless it is cleared
SpecLive == Spec /\ \A s \in SessionIds : WF_vars(TimerFires(s))

\* pollGenerationStatus called once more, from the current render, for a
\* briefing whose terminal status has been handled (the source has no such
\* caller)
Retrigger(briefingId) ==
    /\ \E s \in DOMAIN sessions :
          sessions[s].job = briefingId /\ sessions[s].pc = "done"
    /\ Len(sessions) < MaxSessions
    /\ pollGenerationStatus(briefingId, store, errorDialogShowing)
    /\ lastRun' = IF StillPolling(TRUE, store, briefingId)
                  THEN Out("none", "none")
                  ELSE Out("Stopped", "none")
    /\ UNCHANGED <<store, errorDialogShowing, nextBriefingId, genAlerts, isPending,
                   superseded, cancelAlerts, cancelRequests, openDialogs,
                   resolveRequests, picked>>
    /\ UNCHANGED <<mounted, cancelledStart, aside>>

\* HomeScreen unmounts: the effect cleanup of lines 141-146 calls
\* cancelPolling(); open alerts, requests in flight and the store stay
Unmount ==
    /\ mounted
    /\ mounted' = FALSE
    /\ cancelPolling(sessions)
    /\ lastRun' = Out("none", "none")
    /\ UNCHANGED <<store, errorDialogShowing, nextBriefingId, genAlerts, isPending,
                   superseded, cancelAlerts, cancelRequests, openDialogs,
                   resolveRequests, picked, cancelledStart>>
    /\ UNCHANGED aside

NextUnmount == Next \/ Unmount

SpecUnmount == Init /\ [][NextUnmount]_vars

NextRetrigger == Next \/ \E j \in Jobs : Retrigger(j)

SpecRetrigger == Init /\ [][NextRetrigger]_vars

\* the store on its own: its operations in any order, and restarts of the app
NextStore ==
    \/ \E list \in BriefingLists : CallSetBriefings(list)
    \/ \E b \in {NoBriefing} \cup Jobs : CallSetCurrentBriefing(b)
    \/ \E seg \in {NoSegment, 1} : CallSetCurrentSegment(seg)
    \/ \E j \in Jobs : CallStartGeneration(j)
    \/ CallStopGeneration
    \/ \E payload \in Payloads : CallSetGenerationProgress(payload)
    \/ Restart

SpecStore == Init /\ [][NextStore]_vars

\* one call of request on its own, for every endpoint and token state
InitRequest ==
    /\ HomeInit
    /\ call \in Calls
    /\ app = InitialState
    /\ disk = {}
    /\ storeRun = NoRun
    /\ issue = NoIssue

NextRequest ==
    \/ request
    \/ \E status \in HttpStatuses : FetchResolves(status)
    \/ FetchRejects
    \/ RefreshResolves
    \/ RefreshRejects
    \/ \E status \in HttpStatuses : RefetchResolves(status)

SpecRequest == InitRequest /\ [][NextRequest]_vars

\* one 'Generation Issue' alert on its own, for every pending action
InitIssue ==
    /\ HomeInit
    /\ call = NoCall
    /\ app = InitialState
    /\ disk = {}
    /\ storeRun = NoRun
    /\ issue \in Issues

NextIssue ==
    \/ ShowErrorDialog
    \/ \E i \in 1..MaxOptions : onPress(i)

SpecIssue == InitIssue /\ [][NextIssue]_vars

\* ------------------------------------------------------------------ claims
ActiveJob == store.generatingBriefingId

\* briefing ids that were the active job and no longer are
Retired == {j \in 1..(nextBriefingId - 1) : j # ActiveJob}

\* session s is Polling: its timer is pending, or its getStatus is in flight
\* and the response would pass the test of line 237
Polling(s) ==
    \/ sessions[s].pc = "timer"
    \/ /\ sessions[s].pc = "fetching"
       /\ shouldPollRef
       /\ sessions[s].job = ActiveJob

\* this step handles the response (or the error) of session s's getStatus
Handled(s) == sessions[s].pc = "fetching" /\ sessions'[s].pc # "fetching"

\* this step sends a getStatus request for briefing j
Issued(j) ==
    \E s \in DOMAIN sessions' :
        /\ sessions'[s].job = j
        /\ sessions'[s].pc = "fetching"
        /\ s \in DOMAIN sessions => sessions[s].pc # "fetching"

\* this step sets a timer for session s
Scheduled(s) == sessions'[s].pc = "timer" /\ sessions[s].pc # "timer"

\* C1 (P1): at most one polling session is Polling at any instant, also when a
\* second generation starts while the first is still active (double tap).
C1_SinglePollingSession ==
    Cardinality({s \in DOMAIN sessions : Polling(s)}) <= 1

\* a second session was started while the first still awaits its getStatus,
\* and only the second is Polling
C1_Witness ==
    /\ Len(sessions) = 2
    /\ sessions[1].pc = "fetching"
    /\ ~Polling(1)
    /\ Polling(2)

\* C2 (P5, Scenario D): handling the response or error of a getStatus(X) while
\* the active job is no longer X changes no generation field of the store,
\* shows no dialog or notification and schedules no further poll.
C2_StaleResponseDiscarded ==
    [][\A s \in DOMAIN sessions :
          (Handled(s) /\ sessions[s].job # ActiveJob) =>
              /\ store' = store
              /\ lastRun'.alert = "none"
              /\ openDialogs' = openDialogs
              /\ errorDialogShowing' = errorDialogShowing
              /\ \A t \in DOMAIN sessions : ~Scheduled(t)
              /\ sessions'[s].pc = "stopped"]_vars

\* a response for briefing 1 has just been ignored while briefing 2 is active
C2_Witness ==
    /\ lastRun.log = "Ignoring stale response"
    /\ ActiveJob = 2
    /\ store.isGenerating
    /\ sessions[1].pc = "stopped"

\* C3 (P3, Scenario C): the step that handles an accepted terminal status for
\* briefing X clears the store's active job id, and from then on no getStatus(X)
\* is sent, also when pollGenerationStatus(X) is called again.
C3_TerminalStopsPolling ==
    [][\A s \in DOMAIN sessions :
          /\ (sessions'[s].pc = "done" /\ sessions[s].pc # "done") =>
                 (store'.generatingBriefingId = NoJob /\ ~store'.isGenerating)
          /\ sessions[s].pc = "done" => ~Issued(sessions[s].job)]_vars

\* pollGenerationStatus(1) was called again after briefing 1's terminal status
\* and returned without fetching
C3_Witness ==
    /\ Len(sessions) = 2
    /\ sessions[1].pc = "done"
    /\ sessions[2].job = 1
    /\ sessions[2].pc = "stopped"
    /\ lastRun.log = "Stopped"
    /\ shouldPollRef

\* C4 (P4): the step in which the user confirms cancel clears the polling timer
\* and the store's active job (isGenerating = false) and sends the backend
\* cancel at most afterwards; when that request fails, the store is left as it
\* is and no notification is shown.
C4_CancelClearsAtOnce ==
    [][/\ \A j \in Jobs \cup {NoJob} :
            CancelConfirm(j) =>
                /\ ~store'.isGenerating
                /\ store'.generatingBriefingId = NoJob
                /\ ~shouldPollRef'
                /\ \A s \in DOMAIN sessions' : sessions'[s].pc # "timer"
                /\ j # NoJob => j \in cancelRequests'
       /\ \A j \in Jobs :
            (j \in cancelRequests /\ j \notin cancelRequests') =>
                /\ store' = store
                /\ sessions' = sessions
                /\ lastRun'.alert = "none"]_vars

\* the backend cancel of a job has just failed: the store is cleared and no
\* timer is pending
C4_Witness ==
    /\ lastRun = Out("Failed to cancel on server", "none")
    /\ ~store.isGenerating
    /\ ActiveJob = NoJob
    /\ \E s \in DOMAIN sessions : sessions[s].pc = "stopped"
    /\ \A s \in DOMAIN sessions : sessions[s].pc # "timer"

\* C5 (P2): while the user has not responded, repeated polls that return the
\* same pending_action present the decision dialog for that action exactly
\* once: no dialog is open twice.
C5_DialogPresentedOnce ==
    \A d \in BagToSet(openDialogs) : CopiesIn(d, openDialogs) = 1

\* C6: after the user has picked an option in the dialog for action a, no
\* dialog for a is presented again.
C6_NoDialogAfterPick ==
    [][\A d \in Dialogs :
          d.action_id \in picked =>
              CopiesIn(d, openDialogs') <= CopiesIn(d, openDialogs)]_vars

\* C7: when a 'cancel' decision's resolve request settles, with success or with
\* failure, polling is stopped and the store's active job is cleared.
C7_CancelDecisionStops ==
    [][\A q \in Resolves :
          (/\ q.decision = "cancel"
           /\ CopiesIn(q, resolveRequests') < CopiesIn(q, resolveRequests)) =>
              /\ ~shouldPollRef'
              /\ ~store'.isGenerating
              /\ store'.generatingBriefingId = NoJob
              /\ \A s \in DOMAIN sessions' : sessions'[s].pc # "timer"]_vars

\* C8: once briefing X is no longer the store's active job, no getStatus(X) is
\* sent and no poll for X is scheduled, on the success path or the error path.
C8_RetiredJobNotPolled ==
    [][/\ \A j \in Retired : ~Issued(j)
       /\ \A s \in DOMAIN sessions :
            sessions[s].job \in Retired => ~Scheduled(s)]_vars

\* getStatus(1) has just failed after briefing 2 took over: its session ended
\* while the session of briefing 2 goes on
C8_Witness ==
    /\ lastRun.log = "Error polling status"
    /\ Len(sessions) = 2
    /\ sessions[1].job \in Retired
    /\ sessions[1].pc = "stopped"
    /\ sessions[2].job = ActiveJob
    /\ sessions[2].pc = "fetching"
    /\ shouldPollRef

\* session s waits for the retry that follows a failed getStatus
Failed(s) ==
    /\ s \in DOMAIN sessions
    /\ sessions[s].pc = "timer"
    /\ sessions[s].delay = ErrorDelay

\* the retry of session s has been sent, or its briefing is no longer the
\* active job, or polling was cancelled
RetriedOrOver(s) ==
    /\ s \in DOMAIN sessions
    /\ \/ sessions[s].pc = "fetching"
       \/ sessions[s].job # ActiveJob
       \/ ~shouldPollRef

\* C9: a failed getStatus(X) is rescheduled exactly when X is still the active
\* job and polling was not cancelled, and a rescheduled attempt is eventually
\* sent unless X stops being the active job or polling is cancelled.
C9_ErrorsRetriedForever ==
    /\ [][\A s \in DOMAIN sessions :
            (Handled(s) /\ lastRun'.log = "Error polling status") =>
                IF shouldPollRef /\ sessions[s].job = ActiveJob
                THEN sessions'[s].pc = "timer" /\ sessions'[s].delay = ErrorDelay
                ELSE sessions'[s].pc = "stopped"]_vars
    /\ \A s \in SessionIds : Failed(s) ~> RetriedOrOver(s)

\* a getStatus of the active job has just failed and its retry is scheduled
C9_Witness ==
    /\ lastRun.log = "Error polling status"
    /\ \E s \in DOMAIN sessions :
          Failed(s) /\ sessions[s].job = ActiveJob /\ pollingTimeoutRef = s
    /\ shouldPollRef
    /\ store.isGenerating

\* the delay C10 states for the poll after response r
StatedDelay(r) ==
    IF r.status = "awaiting_confirmation" THEN 2000 ELSE 3000

\* C10: the next check is scheduled 3 s after a non-terminal status, 5 s after
\* a fetch error and 2 s whenever the status is awaiting_confirmation.
C10_DelayByOutcome ==
    [][/\ \A s \in SessionIds, r \in StatusResponses :
            OnProgress(s, r) => sessions'[s].delay = StatedDelay(r)
       /\ \A s \in SessionIds :
            (StatusError(s) /\ Scheduled(s)) => sessions'[s].delay = 5000]_vars


C12_Witness ==
    /\ call.endpoint.path = "resolve"
    /\ call.pc = "returned"
    /\ call.answers = <<401, 200>>
    /\ call.sent = 2

\* C12: one call of getBriefingStatus or resolveBriefingError sends at most one
\* HTTP request to its endpoint, whatever the response.
C12_NeverRetries ==
    call.endpoint.path \in {"status", "resolve"} => call.sent <= 1


\* C13: the acknowledgement of a 'cancel' decision for briefing X that arrives
\* while another briefing Y is the active job neither stops Y's polling session
\* nor clears Y from the store.
C13_AckSparesOtherJob ==
    [][\A q \in Resolves :
          (/\ q.decision = "cancel"
           /\ CopiesIn(q, resolveRequests') < CopiesIn(q, resolveRequests)
           /\ ActiveJob # NoJob
           /\ ActiveJob # q.briefingId) =>
              /\ store' = store
              /\ sessions' = sessions
              /\ shouldPollRef' = shouldPollRef]_vars


\* C14: storage holds only the cached briefings list and currentBriefing, and
\* every restart of the app leaves the store with isGenerating = false,
\* generatingBriefingId = null, progress 0 and no step, whatever the generation
\* state was before.
C14_ActiveJobNotPersisted ==
    /\ [](\A d \in disk : DOMAIN d = {"briefings", "currentBriefing"})
    /\ [][storeRun'.op = "restart" =>
             /\ ~app'.isGenerating
             /\ app'.generatingBriefingId = NoJob
             /\ app'.generationProgress = 0
             /\ app'.generationStep = "null"
             /\ app'.currentBriefing = app.currentBriefing
             /\ app'.briefings = slice(app.briefings, 0, CacheLimit)]_vars

\* the app was restarted in the middle of a generation: the cached list is
\* back, the generation is not
C14_Witness ==
    /\ storeRun.op = "restart"
    /\ storeRun.wasGenerating
    /\ app.briefings = <<2, 1>>
    /\ ~app.isGenerating
    /\ app.generatingBriefingId = NoJob


\* C15: every terminal outcome that polling observes (completed,
\* completed_with_warnings, failed, cancelled) produces a user notification in
\* the handler run that accepts it.
C15_TerminalOutcomeNotified ==
    [][\A s \in DOMAIN sessions :
          (sessions'[s].pc = "done" /\ sessions[s].pc # "done") =>
              lastRun'.alert # "none"]_vars


\* the message C17 states for a 'failed' response r ("present" read as a
\* non-empty string)
StatedMessage(r) ==
    CASE r.errors # <<>> -> r.errors[Len(r.errors)]
      [] r.errors = <<>> /\ r.error \notin {"null", ""} -> r.error
      [] OTHER -> "Generation failed"

\* C17: an accepted 'failed' response shows one 'Error' alert whose message is
\* that of the last element of errors, else the top-level error string, else
\* 'Generation failed', and polling stops.
C17_FailedMessage ==
    [][\A s \in SessionIds, r \in StatusResponses :
          (r.status = "failed" /\ OnTerminal(s, r)) =>
              /\ lastRun'.alert = "Error"
              /\ lastRun'.text = StatedMessage(r)
              /\ sessions'[s].pc = "done"
              /\ ~shouldPollRef'
              /\ \A t \in DOMAIN sessions' : sessions'[t].pc # "timer"
              /\ ~store'.isGenerating]_vars

\* a failed job with two errors and a top-level error string: the last
\* error's message has just been shown
C17_Witness ==
    /\ lastRun.alert = "Error"
    /\ lastRun.text = "TTS quota exceeded"
    /\ \E s \in DOMAIN sessions : sessions[s].pc = "done"
    /\ ~store.isGenerating
    /\ ~shouldPollRef

\* C18: an accepted 'completed_with_warnings' response ends the job as a
\* success (store cleared, polling stopped, briefings query invalidated) and
\* tells the user the number of issues, the length of its errors list.
C18_WarningsCounted ==
    [][\A s \in SessionIds, r \in StatusResponses :
          (r.status = "completed_with_warnings" /\ OnTerminal(s, r)) =>
              /\ ~store'.isGenerating
              /\ ~shouldPollRef'
              /\ lastRun'.invalidated
              /\ lastRun'.alert = "Briefing Ready"
              /\ lastRun'.count = Len(r.errors)]_vars

\* C19: every getStatus request of the polling loop is eventually answered or
\* ends with an error, also when the server never answers.
C19_RequestsComplete ==
    \A s \in SessionIds :
        (s \in DOMAIN sessions /\ sessions[s].pc = "fetching")
            ~> (s \in DOMAIN sessions /\ sessions[s].pc # "fetching")

\* C20: a failed getStatus request changes no store field, shows no dialog or
\* notification and touches nothing but the session's own rescheduling.
C20_FailedPollFrame ==
    [][\A s \in DOMAIN sessions :
          (Handled(s) /\ lastRun'.log = "Error polling status") =>
              /\ store' = store
              /\ lastRun'.alert = "none"
              /\ openDialogs' = openDialogs
              /\ errorDialogShowing' = errorDialogShowing
              /\ shouldPollRef' = shouldPollRef
              /\ \A t \in DOMAIN sessions : t # s => sessions'[t] = sessions[t]
              /\ sessions'[s].pc \in {"timer", "stopped"}
              /\ <<resolveRequests', cancelRequests', isPending'>>
                    = <<resolveRequests, cancelRequests, isPending>>]_vars

\* a getStatus of the active job failed after progress was shown: the store
\* still shows that progress
C20_Witness ==
    /\ lastRun.log = "Error polling status"
    /\ store.isGenerating
    /\ store.generationProgress = 40
    /\ \E s \in DOMAIN sessions :
          sessions[s].job = ActiveJob /\ sessions[s].pc = "timer"


\* response r without its display fields
Canon(r) == [r EXCEPT !.progress_percent = 0, !.current_step = "null"]

\* response r with the display fields of payload
Varied(r, payload) ==
    [r EXCEPT !.progress_percent = payload[1], !.current_step = payload[2]]

\* this step is the handler run that accepts response r of session s
Accepts(s, r) == OnTerminal(s, r) \/ OnProgress(s, r)

\* this step leaves the display fields of response r in a generating store
Displays(r) ==
    store'.isGenerating =>
        /\ store'.generationProgress = r.progress_percent
        /\ store'.generationStep = OrNull(r.current_step)

\* C16: progress_percent and current_step gate nothing: whether a response is
\* accepted, whether polling goes on or stops, the delay, the active job, the
\* dialogs and the notification are those of the response without its display
\* fields.
C16_ProgressGatesNothing ==
    /\ [](\A s \in DOMAIN sessions :
             sessions[s].pc = "fetching" =>
                 \A c \in {Response(status, <<0, "null">>, pa) :
                             status \in Statuses,
                             pa \in {NoPending} \cup PendingActions} :
                     LET accepted == ENABLED Accepts(s, c)
                     IN \A payload \in Payloads \ {<<0, "null">>} :
                            accepted <=> ENABLED Accepts(s, Varied(c, payload)))
    /\ [][\A s \in DOMAIN sessions, r \in StatusResponses :
             (Handled(s) /\ Displays(r) /\ Accepts(s, r)) =>
                 LET c == Canon(r)
                     shows == /\ c.status = "awaiting_confirmation"
                              /\ c.pending_action # NoPending
                              /\ Presents(sessions[s].marker, c.pending_action)
                 IN /\ sessions'[s].pc = IF c.status \in TerminalStatuses
                                         THEN "done" ELSE "timer"
                    /\ sessions'[s].pc = "timer" =>
                          /\ sessions'[s].delay = NextDelay(c)
                          /\ shouldPollRef'
                          /\ store'.isGenerating
                          /\ store'.generatingBriefingId = ActiveJob
                          /\ lastRun' = Out("none", "none")
                    /\ sessions'[s].pc = "done" =>
                          /\ store' = stopGeneration
                          /\ ~shouldPollRef'
                          /\ lastRun' = TerminalNotice(c)
                    /\ openDialogs' =
                          IF shows
                          THEN openDialogs (+) SetToBag({Dialog(sessions[s].job, c.pending_action)})
                          ELSE openDialogs
                    /\ errorDialogShowing' =
                          IF shows THEN c.pending_action.action_id
                          ELSE errorDialogShowing]_vars

\* progress 100 with a non-terminal status: the job is still generating and
\* the next poll is scheduled as usual
C16_Witness ==
    /\ store.isGenerating
    /\ store.generationProgress = 100
    /\ \E s \in DOMAIN sessions :
          /\ sessions[s].job = ActiveJob
          /\ sessions[s].pc = "timer"
          /\ sessions[s].delay = SuccessDelay
    /\ shouldPollRef


\* C21: an accepted non-terminal response for the active job X leaves the
\* store with isGenerating = true, generatingBriefingId = X, generationProgress
\* the progress_percent received (a lower value overwrites a higher one) and
\* generationStep the current_step, or null without one; an accepted
\* 'completed' response leaves isGenerating = false and invalidates the
\* briefings query.
C21_StoreAfterAccepted ==
    [][\A s \in DOMAIN sessions :
          Handled(s) => \A r \in StatusResponses :
          Accepts(s, r) =>
              /\ sessions[s].job = ActiveJob
              /\ r.status \notin TerminalStatuses =>
                    /\ store'.isGenerating
                    /\ store'.generatingBriefingId = sessions[s].job
                    /\ store'.generationProgress = r.progress_percent
                    /\ store'.generationStep =
                          (IF r.current_step \in {"null", ""}
                           THEN "null" ELSE r.current_step)
                    /\ ~lastRun'.invalidated
              /\ r.status = "completed" =>
                    /\ ~store'.isGenerating
                    /\ lastRun'.invalidated]_vars

\* progress 40 with an empty current_step has just been accepted for the
\* active job: the store shows 40 and no step
C21_Witness ==
    /\ lastRun = Out("none", "none")
    /\ store.isGenerating
    /\ store.generationProgress = 40
    /\ store.generationStep = "null"
    /\ \E s \in DOMAIN sessions :
          /\ sessions[s].job = ActiveJob
          /\ sessions[s].pc = "timer"
          /\ sessions[s].delay = SuccessDelay
          /\ pollingTimeoutRef = s


\* C22: startGeneration(j), called in any state of the store, also while
\* another job is active, leaves isGenerating = true, generatingBriefingId = j,
\* generationProgress = 0 and generationStep = 'Starting...', and leaves
\* briefings, currentBriefing and currentSegment as they were.
C22_StartGenerationFrame ==
    [][\A j \in Jobs :
          CallStartGeneration(j) =>
              /\ app'.isGenerating
              /\ app'.generatingBriefingId = j
              /\ app'.generationProgress = 0
              /\ app'.generationStep = "Starting..."
              /\ app'.briefings = app.briefings
              /\ app'.currentBriefing = app.currentBriefing
              /\ app'.currentSegment = app.currentSegment
              /\ DOMAIN app' = DOMAIN app]_vars

\* startGeneration(2) was called while briefing 1 was generating, with
\* briefings cached and one of them current
C22_Witness ==
    /\ storeRun = [op |-> "startGeneration", wasGenerating |-> TRUE, wasJob |-> 1]
    /\ app.generatingBriefingId = 2
    /\ app.generationStep = "Starting..."
    /\ app.briefings = <<2, 1>>
    /\ app.currentBriefing = 1
    /\ app.currentSegment = 1


\* the text C23 states for the button of a decision
StatedText(decision, fallback_description) ==
    CASE decision = "cancel" -> "Cancel Generation"
      [] decision = "retry" -> "Retry"
      [] decision = "continue" ->
            IF fallback_description \notin {"null", ""}
            THEN "Continue with Fallback" ELSE "Continue"

\* C23: the decision dialog has exactly one button for each of cancel, retry
\* and continue that pending_action.options lists and no other, labelled
\* 'Cancel Generation', 'Retry' and 'Continue with Fallback' (with a
\* fallback_description) or 'Continue' (without), and a pressed button relays
\* its own decision with the dialog's job id and action id.
C23_ButtonPerOption ==
    issue.pc \in {"shown", "pressed"} =>
        LET offered == {issue.buttons[i].decision : i \in DOMAIN issue.buttons}
            listed == {issue.options[i] : i \in DOMAIN issue.options}
        IN /\ offered = listed \cap {"cancel", "retry", "continue"}
           /\ Len(issue.buttons) = Cardinality(offered)
           /\ \A i \in DOMAIN issue.buttons :
                 issue.buttons[i].text =
                     StatedText(issue.buttons[i].decision, issue.fallback_description)
           /\ issue.pc = "pressed" =>
                 issue.relayed = [briefingId |-> issue.briefingId,
                                  action_id |-> issue.action_id,
                                  decision |-> issue.buttons[issue.pressed].decision]

\* options list continue twice, an unknown entry and no cancel, with a
\* fallback: the one 'Continue with Fallback' button was pressed and relayed
\* 'continue' for briefing 2
C23_Witness ==
    /\ issue.pc = "pressed"
    /\ issue.options = <<"continue", "skip", "continue">>
    /\ issue.fallback_description = "Cached headlines will be used"
    /\ Len(issue.buttons) = 1
    /\ issue.buttons[1].text = "Continue with Fallback"
    /\ issue.relayed = [briefingId |-> 2, action_id |-> 2, decision |-> "continue"]


\* C24: the step in which the user picks 'continue' or 'retry' clears the
\* 'currently showing' marker and sends the resolve request without touching
\* the store or the polling session, and the step in which that request
\* succeeds or fails changes neither the store's active job nor the polling
\* session: polling for the job goes on.
C24_DecisionKeepsPolling ==
    [][/\ \A d \in Dialogs, decision \in {"continue", "retry"} :
            PickOption(d, decision) =>
                /\ errorDialogShowing' = NoAction
                /\ CopiesIn(Resolve(d, decision), resolveRequests')
                      = CopiesIn(Resolve(d, decision), resolveRequests) + 1
                /\ <<store', sessions', shouldPollRef', pollingTimeoutRef'>>
                      = <<store, sessions, shouldPollRef, pollingTimeoutRef>>
       /\ \A q \in Resolves :
            (/\ q.decision \in {"continue", "retry"}
             /\ CopiesIn(q, resolveRequests') < CopiesIn(q, resolveRequests)) =>
                /\ <<store', sessions', shouldPollRef', pollingTimeoutRef'>>
                      = <<store, sessions, shouldPollRef, pollingTimeoutRef>>
                /\ errorDialogShowing' = errorDialogShowing]_vars

\* 'retry' was picked for the active job: the marker is cleared, the resolve
\* request is in flight and the next poll of the job is pending
C24_Witness ==
    /\ errorDialogShowing = NoAction
    /\ openDialogs = EmptyBag
    /\ \E q \in BagToSet(resolveRequests) :
          q.decision = "retry" /\ q.briefingId = ActiveJob
    /\ store.isGenerating
    /\ shouldPollRef
    /\ \E s \in DOMAIN sessions :
          /\ sessions[s].job = ActiveJob
          /\ sessions[s].pc = "timer"
          /\ pollingTimeoutRef = s


\* C25: when the user has confirmed cancel while the start request was in
\* flight and no job id was known, the arrival of the start response does not
\* make the generation active: the store stays not-generating and no polling
\* session starts.
C25_CancelDuringStart ==
    [][\A m \in Markers :
          (cancelledStart /\ GenerateSuccess(TRUE, m)) =>
              /\ ~store'.isGenerating
              /\ store'.generatingBriefingId = NoJob
              /\ sessions' = sessions
              /\ ~shouldPollRef']_vars

\* cancel was confirmed while the first start request is still in flight
C25_Witness ==
    /\ cancelledStart
    /\ isPending
    /\ ~store.isGenerating
    /\ cancelAlerts = {}
    /\ cancelRequests = {}
    /\ sessions = <<>>

\* C26: the step in which the user confirms cancel while briefing X is the
\* store's active job sends exactly one backend cancel request, for X, also
\* when X became the active job after the confirmation alert was opened.
C26_CancelTargetsActiveJob ==
    [][\A j \in Jobs \cup {NoJob} :
          (ActiveJob # NoJob /\ CancelConfirm(j)) =>
              /\ ActiveJob \notin cancelRequests
              /\ cancelRequests' = cancelRequests \cup {ActiveJob}]_vars

\* the 'Cancel Generation?' alert was opened before the job id was known, and
\* briefing 1 has become the active job since
C26_Witness ==
    /\ NoJob \in cancelAlerts
    /\ ActiveJob = 1
    /\ store.isGenerating
    /\ cancelRequests = {}


\* C27: in every state HomeScreen's calls of startGeneration, stopGeneration
\* and setGenerationProgress lead to, isGenerating is true exactly when
\* generatingBriefingId is not null, and a store that is not generating shows
\* progress 0 and no step.
C27_StoreConsistent ==
    /\ store.isGenerating <=> store.generatingBriefingId # NoJob
    /\ ~store.isGenerating =>
          store.generationProgress = 0 /\ store.generationStep = "null"

\* the second of two overlapping jobs has just completed: the store is back
\* at its idle values
C27_Witness ==
    /\ Len(sessions) = 2
    /\ sessions[2].pc = "done"
    /\ lastRun.alert = "Success"
    /\ store = InitialStore

\* session s is live: its getStatus is in flight or its timer is pending, and
\* polling has not been cancelled
Live(s) ==
    /\ shouldPollRef
    /\ \/ sessions[s].pc = "fetching"
       \/ sessions[s].pc = "timer" /\ pollingTimeoutRef = s

\* C28: while HomeScreen is mounted, whenever the store has an active job X a
\* polling session for X is live: a getStatus(X) is in flight or a poll timer
\* for X is pending.
C28_ActiveJobIsPolled ==
    (mounted /\ ActiveJob # NoJob) =>
        \E s \in DOMAIN sessions : sessions[s].job = ActiveJob /\ Live(s)

\* briefing 2 took over from briefing 1 and waits for its next poll, with a
\* decision for briefing 1 still unanswered on the server
C28_Witness ==
    /\ mounted
    /\ ActiveJob = 2
    /\ Len(sessions) = 2
    /\ sessions[2].pc = "timer"
    /\ sessions[1].pc = "stopped"
    /\ \E q \in BagToSet(resolveRequests) : q.briefingId = 1

\* C29: at every instant at most one poll timer is pending, and it is the one
\* pollingTimeoutRef holds; for the active job at most one getStatus request
\* is in flight, and none while its timer is pending.
C29_OneTimerOneRequest ==
    /\ Cardinality({s \in DOMAIN sessions : sessions[s].pc = "timer"}) <= 1
    /\ \A s \in DOMAIN sessions : sessions[s].pc = "timer" => pollingTimeoutRef = s
    /\ Cardinality({s \in DOMAIN sessions :
                       /\ sessions[s].job = ActiveJob
                       /\ sessions[s].pc \in {"fetching", "timer"}}) <= 1

\* the getStatus of briefing 1 is still in flight while briefing 2, the active
\* job, has its timer pending
C29_Witness ==
    /\ Len(sessions) = 2
    /\ sessions[1].pc = "fetching"
    /\ sessions[2].pc = "timer"
    /\ pollingTimeoutRef = 2
    /\ ActiveJob = 2


\* C30: the unmount of HomeScreen clears the pending timer and stops polling;
\* after it no getStatus request is sent, and the response or error of a
\* getStatus that was in flight changes no store field, shows no dialog and
\* schedules no poll.
C30_UnmountStopsPolling ==
    [][/\ Unmount =>
            /\ ~shouldPollRef'
            /\ pollingTimeoutRef' = NoTimer
            /\ \A s \in DOMAIN sessions' : sessions'[s].pc # "timer"
       /\ ~mounted =>
            /\ \A j \in Jobs : ~Issued(j)
            /\ \A s \in DOMAIN sessions :
                  Handled(s) =>
                      /\ store' = store
                      /\ openDialogs' = openDialogs
                      /\ lastRun'.alert = "none"
                      /\ \A t \in DOMAIN sessions : ~Scheduled(t)]_vars

\* HomeScreen was unmounted while the start request was in flight: briefing 1
\* is generating and its getStatus is in flight on the unmounted screen
C30_Witness ==
    /\ ~mounted
    /\ ActiveJob = 1
    /\ store.isGenerating
    /\ shouldPollRef
    /\ Len(sessions) = 1
    /\ sessions[1].pc = "fetching"

====
